---- MODULE Spec2Model ----
(***************************************************************************)
(* Model of qa-agent.py: DocumentProcessor (recursive crawler with a       *)
(* visited set and a list of DocumentChunk records) and QAAgent            *)
(* (initialize_with_url, format_context, answer_question).                 *)
(*                                                                         *)
(* Python strings are modelled as sequences of tokens, so that substring   *)
(* tests, urlparse, urljoin and f-string formatting are computed and not   *)
(* assumed.  The web site is the environment: what a GET returns and what  *)
(* the returned document contains is chosen when the crawler reads it.     *)
(* A URL is parsed at most once per run (it is in visited_urls from then   *)
(* on), so choosing the document when it is read is the same as fixing     *)
(* the site beforehand.                                                    *)
(***************************************************************************)
EXTENDS Integers, Sequences, FiniteSets, TLC

\* ------------------------------------------------------------------ bounds
\* Largest number of <a href> elements in one fetched document.
MaxLinks == 2
\* Largest number of answer_question calls in one run.
MaxQuestions == 2
\* The GET counter of a URL saturates here (it only has to tell 0, 1, more).
FetchCap == 2

\* ThreadPoolExecutor(max_workers=5): the threads of the pool.
max_workers == 5
Workers == 1..max_workers

\* ------------------------------------------------------- strings and URLs
\* The seed given on the command line, and a seed urlparse rejects.
SeedUrl == <<"https", "://", "docs.example.com", "/">>
BadSeed == <<"https", "://", "[">>
\* The seed of a second site, whose pages link to their own host under
\* the other scheme.
KbSeed == <<"https", "://", "kb.example.net", "/">>
Seeds == {SeedUrl, BadSeed, KbSeed}

\* href attribute values found in documents: absolute-path references,
\* absolute URLs on other hosts, and one that urljoin cannot parse.
HrefRoot == <<"/">>
HrefQ == <<"/docs/q">>
HrefCss == <<"/style", ".css">>
HrefJson == <<"/api", ".js", "on">>
HrefImg == <<"https", "://", "cdn.example.com", "/logo", ".png">>
HrefOther == <<"https", "://", "other.example.org", "/help">>
HrefBad == <<"http", "://", "[">>
Hrefs == {HrefRoot, HrefQ, HrefCss, HrefJson, HrefImg, HrefOther, HrefBad}
HrefHttp == <<"http", "://", "kb.example.net", "/">>
KbHrefs == {HrefHttp}

\* The hrefs the pages of the site at seed carry.
SiteHrefs(seed) == IF seed = KbSeed THEN KbHrefs ELSE Hrefs

\* An anchor of a document: its href and whether it sits inside a
\* nav/header/footer element or in the rest of the document.
Anchors(seed) == [href : SiteHrefs(seed), where : {"chrome", "content"}]

Contains(s, tok) == \E i \in 1..Len(s) : s[i] = tok

IsAbsolute(s) == Len(s) >= 2 /\ s[2] = "://"

\* urlsplit raises ValueError("Invalid IPv6 URL") on an unclosed bracket.
Malformed(s) == IsAbsolute(s) /\ Len(s) >= 3 /\ s[3] = "["

\* Index of the first "?" token, or Len(s)+1.
QueryPos(s) ==
    IF Contains(s, "?") THEN CHOOSE i \in 1..Len(s) :
                                  s[i] = "?" /\ \A j \in 1..(i-1) : s[j] # "?"
    ELSE Len(s) + 1

urlparse(s) ==
    IF IsAbsolute(s)
    THEN [scheme |-> s[1], netloc |-> s[3],
          path |-> SubSeq(s, 4, QueryPos(s) - 1),
          query |-> SubSeq(s, QueryPos(s) + 1, Len(s))]
    ELSE [scheme |-> "", netloc |-> "",
          path |-> SubSeq(s, 1, QueryPos(s) - 1),
          query |-> SubSeq(s, QueryPos(s) + 1, Len(s))]

\* urljoin(base, href) for the hrefs above: an absolute href replaces the
\* base, an absolute-path reference keeps the base's scheme and netloc.
urljoin_raises(base, href) == Malformed(href)

urljoin(base, href) ==
    IF IsAbsolute(href) THEN href ELSE SubSeq(base, 1, 3) \o href

\* Every URL crawl_page can be called with: a seed, or an href resolved
\* against a page of the seed's site.
AllUrls ==
    Seeds \cup {urljoin(SeedUrl, h) : h \in {x \in Hrefs : ~Malformed(x)}}
          \cup {urljoin(KbSeed, h) : h \in KbHrefs}

Extensions == {".png", ".jpg", ".css", ".js"}

\* is_valid_url without the netloc comparison.
is_valid_url_any_host(base_url_, url) ==
    IF Malformed(url) \/ Malformed(base_url_) THEN FALSE
    ELSE ~ \E ext \in Extensions : Contains(url, ext)

is_valid_url(base_url_, url) ==
    IF Malformed(url) \/ Malformed(base_url_) THEN FALSE
    ELSE /\ urlparse(url).netloc = urlparse(base_url_).netloc
         /\ ~ \E ext \in Extensions : Contains(url, ext)

\* ------------------------------------------------------------ documents
None == <<"<None>">>
TitleText == <<"Docs">>
MainText == <<"A", " ", "B">>
EmptyText == <<>>

\* What BeautifulSoup makes of a response body, as far as the code reads it:
\* region  - what select_one finds after the strip: a region with text, a
\*           region without text, or nothing (no main-like element, no body)
\* title   - a <title> with one string, a <title> whose .string is None,
\*           or no <title>
\* nlinks  - number of <a href> elements in the document as fetched
Regions == {"text", "empty", "none"}
Titles == {"string", "nostring", "absent"}
Documents == [region : Regions, title : Titles, nlinks : 0..MaxLinks]

\* HTTP status of a response that arrived; raise_for_status raises
\* HTTPError for 4xx and 5xx only.
Statuses == {200, 304, 404, 503}
raise_for_status_raises(status) == 400 <= status /\ status < 600

DocumentChunk(content_, url_, title_) ==
    [content |-> content_, url |-> url_, title |-> title_]

\* An Optional[DocumentChunk] is a sequence of at most one chunk.
NoChunk == <<>>
Some(chunk) == <<chunk>>

\* Where an exception inside extract_content's try block can strike:
\* nowhere, in the strip loop before anything is removed, or after it.
Faults == {"no", "before_strip", "after_strip"}

\* extract_content: the chunk, or None when there is no region or when
\* the except clause caught something.
extract_content(doc, url, fault) ==
    IF fault # "no" \/ doc.region = "none" THEN NoChunk
    ELSE Some(DocumentChunk(
            IF doc.region = "text" THEN MainText ELSE EmptyText,
            url,
            CASE doc.title = "string" -> TitleText
              [] doc.title = "nostring" -> None
              [] OTHER -> url))

\* `if chunk:` - a dataclass instance defines neither __bool__ nor __len__,
\* so every DocumentChunk is truthy; only None is not.
Truthy(chunk) == chunk # NoChunk

\* ------------------------------------------------------ context assembly
Preamble == <<"Here is the relevant documentation:\n\n">>

\* str() as applied by an f-string.
str(s) == IF s = None THEN <<"None">> ELSE s

Block(chunk) ==
    <<"Source: ">> \o str(chunk.url) \o <<"\nTitle: ">> \o str(chunk.title)
        \o <<"\nContent: ">> \o str(chunk.content) \o <<"\n\n">>

RECURSIVE Blocks(_)
Blocks(cs) == IF cs = <<>> THEN <<>> ELSE Block(Head(cs)) \o Blocks(Tail(cs))

\* format_context without the early return for an empty collection.
format_context_always_preamble(processor_, chunks_) ==
    Preamble \o Blocks(chunks_)

format_context(processor_, chunks_) ==
    IF processor_ = "None" \/ chunks_ = <<>> THEN <<>>
    ELSE Preamble \o Blocks(chunks_)

UninitializedMessage ==
    <<"Error: Documentation not initialized. Please provide a help website URL first.">>
ReplyText == <<"response.content[0].text">>
ErrorAnswer == <<"Error generating answer: ", "str(e)">>
Questions == {<<"How do I reset my password?">>}

\* ---------------------------------------------------------------- state
VARIABLES
    processor,      \* QAAgent.processor: "None" or "DocumentProcessor"
    base_url,       \* DocumentProcessor.base_url
    visited_urls,   \* DocumentProcessor.visited_urls
    chunks,         \* DocumentProcessor.chunks
    stack,          \* per pool thread, its call stack of crawl_page
                    \* activations; empty for a thread without a task
    init_status,    \* initialize_with_url: "not_called", "running",
                    \* "returned" or "raised"
    log,            \* kinds of messages passed to logger
    fetches,        \* number of GETs issued per URL (saturating)
    links_seen,     \* URLs with the seed's netloc that anchors of the documents
                    \* read so far resolve to
    fetched_ok,     \* URLs whose GET returned a response raise_for_status
                    \* accepted
    asked,          \* number of answer_question calls so far
    answer,         \* value the last answer_question call returned
    llm_calls,      \* number of client.messages.create calls so far
    prompt          \* context and question of the last prompt sent

vars == <<processor, base_url, visited_urls, chunks, stack, init_status, log,
          fetches, links_seen, fetched_ok, asked, answer, llm_calls, prompt>>

crawl_vars ==
    <<base_url, visited_urls, chunks, stack, fetches, links_seen, fetched_ok>>
qa_vars == <<asked, answer, llm_calls, prompt>>

NoAnswer == <<>>
NoPrompt == [context |-> <<"<no prompt>">>, question |-> <<>>]

Init ==
    /\ processor = "None"
    /\ base_url = <<>>
    /\ visited_urls = {}
    /\ chunks = <<>>
    /\ stack = [w \in Workers |-> <<>>]
    /\ init_status = "not_called"
    /\ log = {}
    /\ fetches = [u \in AllUrls |-> 0]
    /\ links_seen = {}
    /\ fetched_ok = {}
    /\ asked = 0
    /\ answer = NoAnswer
    /\ llm_calls = 0
    /\ prompt = NoPrompt

\* ------------------------------------------------------------- crawling
Frame(url_, pc_, n_, stripped_) ==
    [url |-> url_, pc |-> pc_, n |-> n_, stripped |-> stripped_]

\* The running activation of thread w, and the stacks after it returned,
\* or after it moved on to state f.
Top(w) == stack[w][Len(stack[w])]
Pop(w) == [stack EXCEPT ![w] = SubSeq(@, 1, Len(@) - 1)]
SetTop(w, f) == [stack EXCEPT ![w][Len(stack[w])] = f]
Call(w, url) == [stack EXCEPT ![w] = Append(@, Frame(url, "call", 0, FALSE))]

IdleWorkers == {w \in Workers : stack[w] = <<>>}
AllIdle == IdleWorkers = Workers

\* executor.submit(self.crawl_page, url): the pool gives the task to a
\* thread without one (it starts its threads in order, one per submit
\* while none is idle).
submit(url) ==
    LET w == CHOOSE v \in IdleWorkers : \A u \in IdleWorkers : v <= u
    IN  Call(w, url)

Bump(u) == [fetches EXCEPT ![u] = IF @ < FetchCap THEN @ + 1 ELSE @]

\* initialize_with_url up to the submit: a fresh processor, and
\* crawl_page(base_url) handed to the pool.
initialize_with_url(url) ==
    /\ init_status = "not_called"
    /\ processor' = "DocumentProcessor"
    /\ base_url' = url
    /\ visited_urls' = {}
    /\ chunks' = <<>>
    /\ stack' = submit(url)
    /\ init_status' = "running"
    /\ log' = log \cup {"Starting documentation processing"}
    /\ UNCHANGED <<fetches, links_seen, fetched_ok>>
    /\ UNCHANGED qa_vars

\* crawl_page that inserts the URL into visited_urls at the guard, before
\* the GET is issued.
crawl_page_enter_marks(w) ==
    /\ stack[w] # <<>>
    /\ Top(w).pc = "call"
    /\ IF Top(w).url \in visited_urls \/ ~is_valid_url(base_url, Top(w).url)
       THEN /\ stack' = Pop(w)
            /\ UNCHANGED <<fetches, visited_urls>>
       ELSE /\ stack' = SetTop(w, [Top(w) EXCEPT !.pc = "get"])
            /\ fetches' = Bump(Top(w).url)
            /\ visited_urls' = visited_urls \cup {Top(w).url}
    /\ UNCHANGED <<processor, base_url, chunks, init_status, log, links_seen,
                   fetched_ok>>
    /\ UNCHANGED qa_vars

\* crawl_page, line 76: the guard; a call that passes it issues the GET.
crawl_page_enter(w) ==
    /\ stack[w] # <<>>
    /\ Top(w).pc = "call"
    /\ IF Top(w).url \in visited_urls \/ ~is_valid_url(base_url, Top(w).url)
       THEN /\ stack' = Pop(w)
            /\ UNCHANGED fetches
       ELSE /\ stack' = SetTop(w, [Top(w) EXCEPT !.pc = "get"])
            /\ fetches' = Bump(Top(w).url)
    /\ UNCHANGED <<processor, base_url, visited_urls, chunks, init_status, log,
                   links_seen, fetched_ok>>
    /\ UNCHANGED qa_vars

\* crawl_page without its try/except: the exception unwinds every
\* activation and ends the task.
crawl_page_fetch_propagates(w) ==
    /\ stack[w] # <<>>
    /\ Top(w).pc = "get"
    /\ \E transport_error \in BOOLEAN, status \in Statuses :
          transport_error \/ raise_for_status_raises(status)
    /\ stack' = [stack EXCEPT ![w] = <<>>]
    /\ UNCHANGED <<processor, base_url, visited_urls, chunks, init_status, log,
                   fetches, links_seen, fetched_ok>>
    /\ UNCHANGED qa_vars

\* requests.get raises (timeout, connection error), or the response has a
\* status raise_for_status rejects: logged at line 97, the call returns.
crawl_page_fetch_fails(w) ==
    /\ stack[w] # <<>>
    /\ Top(w).pc = "get"
    /\ \E transport_error \in BOOLEAN, status \in Statuses :
          transport_error \/ raise_for_status_raises(status)
    /\ stack' = Pop(w)
    /\ log' = log \cup {"Error crawling"}
    /\ UNCHANGED <<processor, base_url, visited_urls, chunks, init_status,
                   fetches, links_seen, fetched_ok>>
    /\ UNCHANGED qa_vars

\* The response arrived with a status raise_for_status accepts, and
\* BeautifulSoup(response.text) raises: the URL is already in visited_urls
\* (line 83), the exception is logged at line 97 and the call returns.
crawl_page_parse_fails(w) ==
    /\ stack[w] # <<>>
    /\ Top(w).pc = "get"
    /\ fetched_ok' = fetched_ok \cup {Top(w).url}
    /\ \E status \in Statuses : ~raise_for_status_raises(status)
    /\ visited_urls' = visited_urls \cup {Top(w).url}
    /\ stack' = Pop(w)
    /\ log' = log \cup {"Error crawling"}
    /\ UNCHANGED <<processor, base_url, chunks, init_status, fetches, links_seen>>
    /\ UNCHANGED qa_vars

\* crawl_page without line 83: the page is extracted and appended, and the
\* URL is never put into visited_urls.
crawl_page_parsed_unmarked(w) ==
    /\ stack[w] # <<>>
    /\ Top(w).pc = "get"
    /\ fetched_ok' = fetched_ok \cup {Top(w).url}
    /\ \E status \in Statuses, doc \in Documents, fault \in Faults :
          /\ ~raise_for_status_raises(status)
          /\ LET chunk == extract_content(doc, Top(w).url, fault)
             IN  chunks' = IF Truthy(chunk) THEN Append(chunks, chunk[1]) ELSE chunks
          /\ log' = IF fault = "no" THEN log
                    ELSE log \cup {"Error extracting content"}
          /\ stack' = SetTop(w, Frame(Top(w).url, "loop", doc.nlinks,
                                   fault # "before_strip"))
    /\ UNCHANGED <<processor, base_url, visited_urls, init_status, fetches,
                   links_seen>>
    /\ UNCHANGED qa_vars

\* Lines 81-89 on a response that parses: mark visited, extract, append.
\* extract_content removes the nav/header/footer elements from the very
\* soup that line 92 searches afterwards, unless it failed before the strip.
crawl_page_parsed(w) ==
    /\ stack[w] # <<>>
    /\ Top(w).pc = "get"
    /\ fetched_ok' = fetched_ok \cup {Top(w).url}
    /\ \E status \in Statuses, doc \in Documents, fault \in Faults :
          /\ ~raise_for_status_raises(status)
          /\ visited_urls' = visited_urls \cup {Top(w).url}
          /\ LET chunk == extract_content(doc, Top(w).url, fault)
             IN  chunks' = IF Truthy(chunk) THEN Append(chunks, chunk[1]) ELSE chunks
          /\ log' = IF fault = "no" THEN log
                    ELSE log \cup {"Error extracting content"}
          /\ stack' = SetTop(w, Frame(Top(w).url, "loop", doc.nlinks,
                                   fault # "before_strip"))
    /\ UNCHANGED <<processor, base_url, init_status, fetches, links_seen>>
    /\ UNCHANGED qa_vars

\* Is the anchor still in the soup when find_all runs at line 92?
InSoup(frame, anchor) == ~(frame.stripped /\ anchor.where = "chrome")

\* crawl_page that hands each link to the pool instead of calling itself:
\* executor.submit(self.crawl_page, next_url) while a thread is free.
crawl_page_loop_submits(w) ==
    /\ stack[w] # <<>>
    /\ Top(w).pc = "loop"
    /\ Top(w).n > 0
    /\ \E anchor \in Anchors(base_url) :
          /\ ~urljoin_raises(Top(w).url, anchor.href)
          /\ LET next_url == urljoin(Top(w).url, anchor.href)
                 rest == [Top(w) EXCEPT !.n = @ - 1]
                 to == IF IdleWorkers = {} THEN w
                       ELSE CHOOSE v \in IdleWorkers : \A u \in IdleWorkers : v <= u
             IN  /\ links_seen' =
                       IF urlparse(next_url).netloc = urlparse(base_url).netloc
                       THEN links_seen \cup {next_url} ELSE links_seen
                 /\ stack' = IF InSoup(Top(w), anchor)
                             THEN [SetTop(w, rest) EXCEPT ![to] =
                                      Append(@, Frame(next_url, "call", 0, FALSE))]
                             ELSE SetTop(w, rest)
    /\ UNCHANGED <<processor, base_url, visited_urls, chunks, init_status, log,
                   fetches, fetched_ok>>
    /\ UNCHANGED qa_vars

\* One <a href> of the document: when find_all yields it, lines 93-94
\* resolve it and call crawl_page on the result.
crawl_page_loop(w) ==
    /\ stack[w] # <<>>
    /\ Top(w).pc = "loop"
    /\ Top(w).n > 0
    /\ \E anchor \in Anchors(base_url) :
          /\ ~urljoin_raises(Top(w).url, anchor.href)
          /\ LET next_url == urljoin(Top(w).url, anchor.href)
                 rest == [Top(w) EXCEPT !.n = @ - 1]
             IN  /\ links_seen' =
                       IF urlparse(next_url).netloc = urlparse(base_url).netloc
                       THEN links_seen \cup {next_url} ELSE links_seen
                 /\ stack' = IF InSoup(Top(w), anchor)
                             THEN [SetTop(w, rest) EXCEPT ![w] =
                                      Append(@, Frame(next_url, "call", 0, FALSE))]
                             ELSE SetTop(w, rest)
    /\ UNCHANGED <<processor, base_url, visited_urls, chunks, init_status, log,
                   fetches, fetched_ok>>
    /\ UNCHANGED qa_vars

\* urljoin raises on an href inside the loop: the except clause of this
\* activation (line 96) catches it, so the rest of the loop is abandoned.
crawl_page_resolve_fails(w) ==
    /\ stack[w] # <<>>
    /\ Top(w).pc = "loop"
    /\ Top(w).n > 0
    /\ \E anchor \in Anchors(base_url) :
          /\ InSoup(Top(w), anchor)
          /\ urljoin_raises(Top(w).url, anchor.href)
    /\ stack' = Pop(w)
    /\ log' = log \cup {"Error crawling"}
    /\ UNCHANGED <<processor, base_url, visited_urls, chunks, init_status,
                   fetches, links_seen, fetched_ok>>
    /\ UNCHANGED qa_vars

\* The loop is exhausted: crawl_page returns to its caller.
crawl_page_return(w) ==
    /\ stack[w] # <<>>
    /\ Top(w).pc = "loop"
    /\ Top(w).n = 0
    /\ stack' = Pop(w)
    /\ UNCHANGED <<processor, base_url, visited_urls, chunks, init_status, log,
                   fetches, links_seen, fetched_ok>>
    /\ UNCHANGED qa_vars

\* process_documentation that does not wait for the pool (no with block,
\* or shutdown(wait=False)): it returns while the task is still running.
process_documentation_does_not_wait ==
    /\ init_status = "running"
    /\ init_status' = "returned"
    /\ log' = log \cup {"Processed documentation chunks"}
    /\ UNCHANGED <<processor, base_url, visited_urls, chunks, stack, fetches,
                   links_seen, fetched_ok>>
    /\ UNCHANGED qa_vars

\* The submitted task has ended: the with block's shutdown(wait=True)
\* returns, the future's result is never read, initialize_with_url logs
\* the number of chunks and returns normally.
process_documentation_returns ==
    /\ init_status = "running"
    /\ AllIdle
    /\ init_status' = "returned"
    /\ log' = log \cup {"Processed documentation chunks"}
    /\ UNCHANGED <<processor, base_url, visited_urls, chunks, stack, fetches,
                   links_seen, fetched_ok>>
    /\ UNCHANGED qa_vars

\* An except clause that drops the processor before it re-raises
\* (self.processor = None).
initialize_with_url_raises_unset(url) ==
    /\ init_status = "not_called"
    /\ processor' = "None"
    /\ base_url' = url
    /\ visited_urls' = {}
    /\ chunks' = <<>>
    /\ stack' = stack
    /\ init_status' = "raised"
    /\ log' = log \cup {"Starting documentation processing",
                        "Error initializing agent"}
    /\ UNCHANGED <<fetches, links_seen, fetched_ok>>
    /\ UNCHANGED qa_vars

\* The pool cannot start its thread: submit raises in the caller's thread,
\* lines 118-120 log and re-raise.
initialize_with_url_raises(url) ==
    /\ init_status = "not_called"
    /\ processor' = "DocumentProcessor"
    /\ base_url' = url
    /\ visited_urls' = {}
    /\ chunks' = <<>>
    /\ stack' = stack
    /\ init_status' = "raised"
    /\ log' = log \cup {"Starting documentation processing",
                        "Error initializing agent"}
    /\ UNCHANGED <<fetches, links_seen, fetched_ok>>
    /\ UNCHANGED qa_vars

\* main enters the question loop only when initialize_with_url returned.
main_enters_loop == init_status = "returned"

\* ------------------------------------------------------------ questions
CanAsk == init_status # "running" /\ asked < MaxQuestions

\* answer_question without the check of self.processor.
answer_question_unchecked(question) ==
    /\ CanAsk
    /\ processor = "None"
    /\ asked' = asked + 1
    /\ prompt' = [context |-> format_context(processor, chunks),
                  question |-> question]
    /\ llm_calls' = llm_calls + 1
    /\ answer' = ReplyText
    /\ UNCHANGED <<processor, init_status, log>>
    /\ UNCHANGED crawl_vars

answer_question_uninitialized(question) ==
    /\ CanAsk
    /\ processor = "None"
    /\ asked' = asked + 1
    /\ answer' = UninitializedMessage
    /\ UNCHANGED <<llm_calls, prompt>>
    /\ UNCHANGED <<processor, init_status, log>>
    /\ UNCHANGED crawl_vars

answer_question_replied(question) ==
    /\ CanAsk
    /\ processor # "None"
    /\ asked' = asked + 1
    /\ prompt' = [context |-> format_context(processor, chunks),
                  question |-> question]
    /\ llm_calls' = llm_calls + 1
    /\ answer' = ReplyText
    /\ UNCHANGED <<processor, init_status, log>>
    /\ UNCHANGED crawl_vars

\* An except clause that also throws the collected documentation away.
answer_question_failure_resets(question) ==
    /\ CanAsk
    /\ processor # "None"
    /\ asked' = asked + 1
    /\ prompt' = [context |-> format_context(processor, chunks),
                  question |-> question]
    /\ llm_calls' = llm_calls + 1
    /\ answer' = ErrorAnswer
    /\ log' = log \cup {"Error generating answer"}
    /\ visited_urls' = {}
    /\ chunks' = <<>>
    /\ UNCHANGED <<processor, init_status, base_url, stack, fetches, links_seen, fetched_ok>>

\* messages.create raises, or the response has no content[0].text.
answer_question_collaborator_fails(question) ==
    /\ CanAsk
    /\ processor # "None"
    /\ asked' = asked + 1
    /\ prompt' = [context |-> format_context(processor, chunks),
                  question |-> question]
    /\ llm_calls' = llm_calls + 1
    /\ answer' = ErrorAnswer
    /\ log' = log \cup {"Error generating answer"}
    /\ UNCHANGED <<processor, init_status>>
    /\ UNCHANGED crawl_vars

Next ==
    \/ \E url \in Seeds : initialize_with_url(url)
    \/ \E url \in Seeds : initialize_with_url_raises(url)
    \/ \E w \in Workers : crawl_page_enter(w)
    \/ \E w \in Workers : crawl_page_fetch_fails(w)
    \/ \E w \in Workers : crawl_page_parse_fails(w)
    \/ \E w \in Workers : crawl_page_parsed(w)
    \/ \E w \in Workers : crawl_page_loop(w)
    \/ \E w \in Workers : crawl_page_resolve_fails(w)
    \/ \E w \in Workers : crawl_page_return(w)
    \/ process_documentation_returns
    \/ \E q \in Questions : answer_question_uninitialized(q)
    \/ \E q \in Questions : answer_question_replied(q)
    \/ \E q \in Questions : answer_question_collaborator_fails(q)

Spec == Init /\ [][Next]_vars

\* The steps of the pool thread and of the caller waiting for it.  The
\* thread keeps running the submitted task and every GET carries
\* timeout=10, so an enabled step is eventually taken.
CrawlStep ==
    \/ \E w \in Workers : crawl_page_enter(w)
    \/ \E w \in Workers : crawl_page_fetch_fails(w)
    \/ \E w \in Workers : crawl_page_parse_fails(w)
    \/ \E w \in Workers : crawl_page_parsed(w)
    \/ \E w \in Workers : crawl_page_loop(w)
    \/ \E w \in Workers : crawl_page_resolve_fails(w)
    \/ \E w \in Workers : crawl_page_return(w)
    \/ process_documentation_returns

\* One initialize_with_url call from start to end.  answer_question runs
\* in the calling thread, which is inside initialize_with_url for the
\* whole crawl, so it takes no part in it.
CrawlNext ==
    \/ \E url \in Seeds : initialize_with_url(url)
    \/ \E url \in Seeds : initialize_with_url_raises(url)
    \/ CrawlStep

FairSpec == Init /\ [][CrawlNext]_vars /\ WF_vars(CrawlStep)

TypeOK ==
    /\ processor \in {"None", "DocumentProcessor"}
    /\ visited_urls \subseteq AllUrls
    /\ fetched_ok \subseteq AllUrls
    /\ init_status \in {"not_called", "running", "returned", "raised"}
    /\ asked \in 0..MaxQuestions
    /\ llm_calls \in 0..MaxQuestions
    /\ \A w \in Workers : \A i \in 1..Len(stack[w]) :
          stack[w][i].pc \in {"call", "get", "loop"}

\* ------------------------------------------------------ names for claims
QUrl == urljoin(SeedUrl, HrefQ)
CssUrl == urljoin(SeedUrl, HrefCss)
JsonUrl == urljoin(SeedUrl, HrefJson)

IsPrefix(a, b) == Len(a) <= Len(b) /\ SubSeq(b, 1, Len(a)) = a

Crawled == init_status = "returned"

\* The claims' own reading of a URL: its host, and whether its path ends
\* in one of the four extensions.
Host(u) == urlparse(u).netloc
PathEndsInExtension(u) ==
    LET path == urlparse(u).path
    IN  Len(path) > 0 /\ path[Len(path)] \in Extensions
Admissible(u) ==
    ~Malformed(u) /\ Host(u) = Host(base_url) /\ ~PathEndsInExtension(u)

\* C1: during one crawl run no URL is fetched more than once, whatever the
\* link graph and whatever the outcomes of the fetches.
C1_NoUrlFetchedTwice == \A u \in AllUrls : fetches[u] <= 1

\* C2: a discovered URL whose host differs from the seed's host is never
\* fetched, and a discovered URL whose path ends in .png, .jpg, .css or .js
\* is never fetched.
C2_FilteredUrlsNeverFetched ==
    processor # "None" =>
        \A u \in AllUrls :
            (Host(u) # Host(base_url) \/ PathEndsInExtension(u)) => fetches[u] = 0

\* crawl_page is called with a page of another host, by the document of
\* /docs/q, after a stylesheet link of the seed's host had been read.
C2_Witness ==
    /\ Len(stack[1]) = 3
    /\ stack[1][2].url = QUrl
    /\ Top(1).pc = "call"
    /\ Top(1).url = HrefOther
    /\ CssUrl \in links_seen

\* C3: when a crawl completes, every admissible URL reachable from the seed
\* through the anchors of fetched pages is in visited_urls, and has a record
\* when its page has a content region.  Stated here for the runs the
\* claim's example describes, in which nothing failed: no fetch, parse,
\* extraction or href resolution error was logged.
C3_ReachableAdmissibleVisited ==
    (Crawled /\ log \cap {"Error crawling", "Error extracting content"} = {}) =>
        \A u \in links_seen \cup {base_url} :
            Admissible(u) => u \in visited_urls /\ fetches[u] > 0

\* C4: the crawl started by process_documentation terminates, and it has
\* terminated exactly when no crawl_page activation is left: it does not
\* return while one is pending, and once none is pending it returns.
C4_CrawlTerminates ==
    /\ (init_status = "running") ~> Crawled
    /\ [](Crawled => AllIdle)
    /\ [][init_status = "running" /\ init_status' # "running" => AllIdle]_vars

\* A completed crawl of a cyclic site: the seed and /docs/q were both
\* fetched, each once, and a document read on the way had an anchor that
\* points back to the seed.
C4_Witness ==
    /\ Crawled
    /\ visited_urls = {SeedUrl, QUrl}
    /\ SeedUrl \in links_seen
    /\ fetches[SeedUrl] = 1
    /\ fetches[QUrl] = 1

\* A crawl_page activation that ends by an exception: it had issued its GET
\* and never reached its loop, or it left its loop with links remaining.
EndsByFailure(w) ==
    /\ stack[w] # <<>>
    /\ Len(stack'[w]) < Len(stack[w])
    /\ \/ Top(w).pc = "get"
       \/ Top(w).pc = "loop" /\ Top(w).n > 0

\* C5: a failure in one page changes no record already collected, and
\* leaves the crawl running with every other activation as it was: the
\* caller's loop resumes with the links it had left.  No step of a run
\* removes or changes a collected record.
C5_FailureIsIsolated ==
    /\ [][IsPrefix(chunks, chunks')]_vars
    /\ [][\A w \in Workers : EndsByFailure(w) =>
            /\ chunks' = chunks
            /\ stack' = Pop(w)
            /\ init_status' = "running"]_vars

\* The first GET of /docs/q failed, the seed's record was kept, the seed's
\* next link was followed and the second GET of /docs/q gave a record.
C5_Witness ==
    /\ "Error crawling" \in log
    /\ fetches[QUrl] = 2
    /\ Len(chunks) = 2
    /\ chunks[1].url = SeedUrl
    /\ chunks[2].url = QUrl

\* The seed was fetched and the fetch failed.
SeedFetchFailed ==
    /\ init_status \in {"returned", "raised"}
    /\ base_url \in AllUrls
    /\ fetches[base_url] > 0
    /\ base_url \notin visited_urls

\* C6: when the seed URL cannot be fetched, initialize_with_url logs the
\* failure and re-raises, so that main does not enter the question loop.
C6_SeedFailureIsRaised ==
    SeedFetchFailed =>
        /\ init_status = "raised"
        /\ "Error initializing agent" \in log
        /\ ~main_enters_loop

\* C7: answer_question on an agent on which initialize_with_url was never
\* called returns the fixed uninitialized-state message and makes no call
\* to the answer-generation collaborator.
C7_UninitializedAnswer ==
    (init_status = "not_called" /\ asked > 0) =>
        /\ answer = UninitializedMessage
        /\ llm_calls = 0
        /\ prompt = NoPrompt

C7_Witness == init_status = "not_called" /\ asked = MaxQuestions

\* C8: an answer_question call, failed or not, returns a string and leaves
\* visited_urls and chunks as they were; when the collaborator was called
\* and failed, the string is the error description; the context of every
\* prompt is the context of the records as they are after the call.
C8_AnswerKeepsCrawlState ==
    [][asked' # asked =>
        /\ visited_urls' = visited_urls
        /\ chunks' = chunks
        /\ processor' = processor
        /\ answer' \in {UninitializedMessage, ReplyText, ErrorAnswer}
        /\ llm_calls' # llm_calls =>
              prompt'.context = format_context(processor', chunks')
        /\ "Error generating answer" \in log' \ log => answer' = ErrorAnswer]_vars

\* A question answered from two records right after a question on which
\* the collaborator failed.
C8_Witness ==
    /\ Crawled
    /\ Len(chunks) = 2
    /\ asked = 2
    /\ "Error generating answer" \in log
    /\ answer = ReplyText

\* Positions of the "Source: " labels of a context, and the i-th of them.
SourcePositions(ctx) == {p \in 1..Len(ctx) : ctx[p] = "Source: "}
NthSource(ctx, i) ==
    CHOOSE p \in SourcePositions(ctx) :
        Cardinality({q \in SourcePositions(ctx) : q < p}) = i - 1
BlockEnd(ctx, i) ==
    IF i = Cardinality(SourcePositions(ctx)) THEN Len(ctx)
    ELSE NthSource(ctx, i + 1) - 1

\* The text Python prints for a field of a record.
Rendered(field) == IF field = None THEN <<"None">> ELSE field

\* C9: format_context returns the empty string when there is no record;
\* otherwise the preamble followed by one labelled block per record, in
\* the order of the collection, holding the record's URL, title and body.
C9_FormatContext ==
    LET ctx == format_context(processor, chunks)
    IN  /\ chunks = <<>> => ctx = <<>>
        /\ chunks # <<>> =>
              /\ ctx[1] = "Here is the relevant documentation:\n\n"
              /\ Cardinality(SourcePositions(ctx)) = Len(chunks)
              /\ NthSource(ctx, 1) = 2
              /\ \A i \in 1..Len(chunks) :
                    SubSeq(ctx, NthSource(ctx, i), BlockEnd(ctx, i)) =
                        <<"Source: ">> \o chunks[i].url
                        \o <<"\nTitle: ">> \o Rendered(chunks[i].title)
                        \o <<"\nContent: ">> \o chunks[i].content
                        \o <<"\n\n">>

\* Two records, the first with the page's title and text, the second with
\* the URL as its title.
C9_Witness ==
    /\ Len(chunks) = 2
    /\ chunks[1].title = TitleText
    /\ chunks[1].content = MainText
    /\ chunks[2].title = chunks[2].url

\* C10: every record in chunks belongs to a URL whose fetch succeeded and
\* whose page yielded a content region that is not empty.
C10_RecordsHaveContent ==
    \A i \in 1..Len(chunks) :
        /\ chunks[i].url \in visited_urls
        /\ fetches[chunks[i].url] > 0
        /\ chunks[i].content # EmptyText

\* The threads whose running activation has passed the check of line 76
\* and waits for its GET; line 83 has not yet inserted the URL.
InFlight == {w \in Workers : stack[w] # <<>> /\ Top(w).pc = "get"}

\* C11: no two crawl workers ever have a fetch of the same URL in flight
\* at once: between a worker's visited check of a URL and its insertion,
\* no other worker is past the check of that URL.
C11_NoConcurrentFetchOfOneUrl ==
    \A w \in InFlight : \A v \in InFlight \ {w} : Top(v).url # Top(w).url

\* A GET of /docs/q is in flight for the second time in the run: two
\* links of the seed's document lead to it and the first GET failed.
C11_Witness ==
    /\ 1 \in InFlight
    /\ Len(stack[1]) = 2
    /\ Top(1).url = QUrl
    /\ fetches[QUrl] = 2

\* A step of thread w that passes one anchor of the document its running
\* activation has read, and a step that calls crawl_page from it.
AnchorPassed(w) ==
    /\ stack[w] # <<>>
    /\ Top(w).pc = "loop"
    /\ Top(w).n > 0
    /\ Len(stack'[w]) >= Len(stack[w])
    /\ stack'[w][Len(stack[w])].n = Top(w).n - 1
CrawlPageCalled(w) ==
    /\ Len(stack'[w]) = Len(stack[w]) + 1
    /\ stack'[w][Len(stack'[w])].pc = "call"

\* C12: every anchor of the page as fetched is resolved and offered to
\* crawl_page, those inside nav, header and footer elements included.
C12_EveryAnchorOffered ==
    [][\A w \in Workers : AnchorPassed(w) => CrawlPageCalled(w)]_vars

\* The activations that have just been called and stand at the guard of
\* line 76.
AtGuard == {w \in Workers : stack[w] # <<>> /\ Top(w).pc = "call"}

\* C13: is_valid_url accepts a discovered URL exactly when its host is the
\* seed's and its path does not end in .png, .jpg, .css or .js; a same-host
\* URL with such a string elsewhere (a path ending in .json) is accepted.
C13_ValidIffHostAndPathEnd ==
    \A w \in AtGuard :
        is_valid_url(base_url, Top(w).url) <=> Admissible(Top(w).url)

Scheme(u) == urlparse(u).scheme

\* C14: a discovered URL is same-origin only when its scheme and its host
\* are the seed's; a link to the seed's host under another scheme is
\* never fetched.
C14_OtherSchemeNeverFetched ==
    \A u \in AllUrls :
        fetches[u] > 0 =>
            /\ Host(u) = Host(base_url)
            /\ Scheme(u) = Scheme(base_url)

\* chunks holds no record of url.
NoRecord(url) == \A i \in DOMAIN chunks : chunks[i].url # url

\* A step in which thread w has received a page and extract_content has
\* returned None for it.
YieldsNoRecord(w) ==
    /\ stack[w] # <<>>
    /\ Top(w).pc = "get"
    /\ Len(stack'[w]) = Len(stack[w])
    /\ stack'[w][Len(stack[w])].pc = "loop"
    /\ chunks' = chunks

\* C15: a fetched page that yields no record (no region found, or
\* extract_content failed) appends nothing, is still marked visited, and
\* each of its outbound links is still offered to crawl_page.
C15_NoRecordLinksStillOffered ==
    [][\A w \in Workers :
          /\ YieldsNoRecord(w) =>
                /\ NoRecord(Top(w).url)'
                /\ Top(w).url \in visited_urls'
          /\ (AnchorPassed(w) /\ NoRecord(Top(w).url)) => CrawlPageCalled(w)]_vars

\* C16: within one crawl no two records of chunks have the same url, and
\* the url of every record is in visited_urls.
C16_UrlIsUniqueKey ==
    /\ \A i, j \in DOMAIN chunks : chunks[i].url = chunks[j].url => i = j
    /\ \A i \in DOMAIN chunks : chunks[i].url \in visited_urls

\* Two pages have been recorded, one of them reached again by a later link.
C16_Witness ==
    /\ Len(chunks) = 2
    /\ chunks[1].url = SeedUrl
    /\ chunks[2].url = QUrl
    /\ SeedUrl \in links_seen
    /\ AllIdle

\* C17: when initialize_with_url returns no crawl_page activation is
\* running or pending, and from then on nothing, answer_question and its
\* format_context included, starts one or modifies visited_urls or chunks.
C17_CrawlOverAtReturn ==
    /\ [][~Crawled /\ Crawled' => AllIdle']_vars
    /\ [][Crawled => /\ Crawled'
                     /\ AllIdle'
                     /\ UNCHANGED <<visited_urls, chunks>>]_vars

\* After a crawl that collected a record, one question has been answered
\* from it and another has failed in the collaborator.
C17_Witness ==
    /\ Crawled
    /\ Len(chunks) >= 1
    /\ asked = 2
    /\ llm_calls = 2
    /\ answer = ErrorAnswer
    /\ prompt.context # <<>>

\* C18: visited_urls is exactly the set of URLs whose GET returned without
\* error in this run; a URL whose fetch failed is not in it, so a later
\* link to it passes the visited check and is fetched again.
C18_VisitedIsFetchedOk == visited_urls = fetched_ok

\* The GET of /docs/q failed, a later link led to it again, and its second
\* GET is in flight: the seed is visited and /docs/q is not.
C18_Witness ==
    /\ visited_urls = {SeedUrl}
    /\ fetches[QUrl] = 2
    /\ "Error crawling" \in log
    /\ \E w \in InFlight : Top(w).url = QUrl

\* The pool threads that are running a task.
BusyWorkers == Workers \ IdleWorkers

\* C19: the one task process_documentation submits does all link following
\* by recursion, so at most one pool thread is busy and at most one
\* crawl_page activation is waiting for a GET, which is within max_workers.
C19_OneFetchInFlight ==
    /\ Cardinality(BusyWorkers) <= 1
    /\ Cardinality(InFlight) <= 1
    /\ Cardinality(InFlight) <= max_workers
    /\ init_status = "running" => BusyWorkers \subseteq {1}

\* The GET of a linked page is in flight inside the submitted task, while
\* the activation of the seed page waits in its loop on the same thread.
C19_Witness ==
    /\ InFlight = {1}
    /\ BusyWorkers = {1}
    /\ Len(stack[1]) = 2
    /\ stack[1][1].pc = "loop"
    /\ stack[1][1].url = SeedUrl
    /\ fetches[QUrl] = 1

\* A step that is one call of answer_question.
Answered == asked' = asked + 1

\* C20: once initialize_with_url has been called the processor is set,
\* however the crawl went; answer_question then never returns the
\* uninitialized message and always calls the collaborator, with an empty
\* context in the prompt when chunks is empty.
C20_InitializedAlwaysAsks ==
    /\ [](init_status # "not_called" => processor # "None")
    /\ [][(Answered /\ init_status # "not_called") =>
             /\ answer' # UninitializedMessage
             /\ llm_calls' = llm_calls + 1
             /\ prompt'.context = IF chunks = <<>> THEN <<>>
                                  ELSE format_context(processor, chunks)]_vars

\* The seed's GET failed, initialize_with_url returned with nothing
\* fetched, and a question was sent to the collaborator with no context.
C20_Witness ==
    /\ Crawled
    /\ fetched_ok = {}
    /\ chunks = <<>>
    /\ asked = 1
    /\ llm_calls = 1
    /\ answer = ReplyText
    /\ prompt.context = <<>>

====
